---- MODULE Spec2Model ----
(***************************************************************************)
(* Model of src/advanced-vector/vector.h: RawMemory<T> (a block of         *)
(* uninitialized slots) and Vector<T> (a RawMemory plus the count of live  *)
(* elements).  The heap is modelled slot by slot so that the lifetime of   *)
(* every element (constructed / destroyed / moved-from) is observable.     *)
(***************************************************************************)
EXTENDS Integers, Sequences, FiniteSets, TLC

\* ---- bounds of the explored space ----
MaxHeap == 4      \* slots allocated at the end of an operation, one vector in use
MaxShared == 3    \* the same, both vectors in use
MaxVal == 1       \* element values are 0..MaxVal
NBlocks == 3      \* block identities 1..NBlocks (0 is nullptr)

\* ---- slot contents ----
Uninit == -1      \* raw memory, no object lives here
MovedFrom == -2   \* a live object in its moved-from state
Stale == -3       \* a live object outside [0, size): no operation reads its value
Default == 0      \* T() : the value-initialised element
NoThrow == -1     \* fuel value: no element operation throws

Values == 0..MaxVal
Blocks == 1..NBlocks
Vecs == {1, 2}       \* the two named vectors of the program
Tmp == 3             \* the local Vector of copy assignment (rhs_copy)
AllVecs == Vecs \cup {Tmp}
Live(x) == x # Uninit

VARIABLES heap, vec, nothrowMove, last, halted, focus, script, raw
vars == <<heap, vec, nothrowMove, last, halted, focus, script, raw>>

\* ---- the machine state threaded through one operation ----
NoEv == [des |-> {}, con |-> {}, flt |-> {}, rel |-> {}, alc |-> {}]
Start(fuel) == [heap |-> heap, vec |-> vec, ev |-> NoEv, exc |-> FALSE, fuel |-> fuel, ret |-> <<0, 0>>]

\* one element operation that may throw: it throws when the fuel is used up
Tick(m) ==
    IF m.exc \/ m.fuel = NoThrow THEN m
    ELSE IF m.fuel = 0 THEN [m EXCEPT !.exc = TRUE, !.fuel = NoThrow]
    ELSE [m EXCEPT !.fuel = @ - 1]

InBlock(m, b, i) == b \in Blocks /\ i >= 0 /\ i < Len(m.heap[b])
At(m, b, i) == IF InBlock(m, b, i) THEN m.heap[b][i + 1] ELSE Uninit
Fault(m, f) == [m EXCEPT !.ev.flt = @ \cup {f}]

\* placement new into slot i of block b, the object getting value x
Place(m, b, i, x) ==
    IF ~InBlock(m, b, i) THEN Fault(m, "oob")
    ELSE LET m1 == IF Live(At(m, b, i)) THEN Fault(m, "construct_over_live") ELSE m
         IN [m1 EXCEPT !.heap[b][i + 1] = x, !.ev.con = @ \cup {<<b, i>>}]

\* assignment to the object in slot i of block b
Store(m, b, i, x) ==
    IF ~InBlock(m, b, i) THEN Fault(m, "oob")
    ELSE LET m1 == IF Live(At(m, b, i)) THEN m ELSE Fault(m, "assign_nonlive")
         IN [m1 EXCEPT !.heap[b][i + 1] = x]

\* reading the object in slot i of block b
Load(m, b, i) ==
    IF ~InBlock(m, b, i) THEN Fault(m, "oob")
    ELSE IF Live(At(m, b, i)) THEN m ELSE Fault(m, "read_nonlive")

\* new (p) T(args...)
CtorValue(m, b, i, x) ==
    LET m1 == Tick(m) IN IF m1.exc THEN m1 ELSE Place(m1, b, i, x)

\* new (p) T()
CtorDefault(m, b, i) == CtorValue(m, b, i, Default)

\* new (p) T(const T&)
CtorCopy(m, db, di, sb, si) ==
    LET m1 == Tick(m) IN
    IF m1.exc THEN m1 ELSE Place(Load(m1, sb, si), db, di, At(m1, sb, si))

\* new (p) T(T&&): the source stays live, in the moved-from state
CtorMove(m, db, di, sb, si) ==
    LET m1 == IF nothrowMove THEN m ELSE Tick(m) IN
    IF m1.exc THEN m1
    ELSE LET m2 == Place(Load(m1, sb, si), db, di, At(m1, sb, si))
         IN IF InBlock(m2, sb, si) THEN [m2 EXCEPT !.heap[sb][si + 1] = MovedFrom] ELSE m2

\* *p = q
AssignCopy(m, db, di, sb, si) ==
    LET m1 == Tick(m) IN
    IF m1.exc THEN m1 ELSE Store(Load(m1, sb, si), db, di, At(m1, sb, si))

\* *p = std::move(q)
AssignMove(m, db, di, sb, si) ==
    LET m1 == IF nothrowMove THEN m ELSE Tick(m) IN
    IF m1.exc THEN m1
    ELSE IF db = sb /\ di = si THEN Load(m1, sb, si)
    ELSE LET m2 == Store(Load(m1, sb, si), db, di, At(m1, sb, si))
         IN IF InBlock(m2, sb, si) THEN [m2 EXCEPT !.heap[sb][si + 1] = MovedFrom] ELSE m2

\* p->~T()
DestroyAt(m, b, i) ==
    IF ~InBlock(m, b, i) THEN Fault(m, "oob")
    ELSE IF ~Live(At(m, b, i)) THEN Fault(m, "destroy_nonlive")
    ELSE [m EXCEPT !.heap[b][i + 1] = Uninit, !.ev.des = @ \cup {<<b, i>>}]

\* ---- exceptions ----
Caught(m) == [m EXCEPT !.exc = FALSE]
Rethrow(m) == [m EXCEPT !.exc = TRUE]

\* ---- <memory> / <algorithm> ----
RECURSIVE destroy_n(_, _, _, _)
destroy_n(m, b, o, n) ==
    IF m.exc \/ n <= 0 THEN m
    ELSE destroy_n(DestroyAt(m, b, o), b, o + 1, n - 1)

\* copies k, k+1, ... n-1; on a throw the k objects already made are destroyed
RECURSIVE UninitCopyFrom(_, _, _, _, _, _, _)
UninitCopyFrom(m, sb, so, n, db, do, k) ==
    IF m.exc \/ k >= n THEN m
    ELSE LET m1 == CtorCopy(m, db, do + k, sb, so + k)
         IN IF m1.exc THEN Rethrow(destroy_n(Caught(m1), db, do, k))
            ELSE UninitCopyFrom(m1, sb, so, n, db, do, k + 1)

uninitialized_copy_n(m, sb, so, n, db, do) == UninitCopyFrom(m, sb, so, n, db, do, 0)

RECURSIVE UninitMoveFrom(_, _, _, _, _, _, _)
UninitMoveFrom(m, sb, so, n, db, do, k) ==
    IF m.exc \/ k >= n THEN m
    ELSE LET m1 == CtorMove(m, db, do + k, sb, so + k)
         IN IF m1.exc THEN Rethrow(destroy_n(Caught(m1), db, do, k))
            ELSE UninitMoveFrom(m1, sb, so, n, db, do, k + 1)

uninitialized_move_n(m, sb, so, n, db, do) == UninitMoveFrom(m, sb, so, n, db, do, 0)

RECURSIVE UninitValueFrom(_, _, _, _, _)
UninitValueFrom(m, b, o, n, k) ==
    IF m.exc \/ k >= n THEN m
    ELSE LET m1 == CtorDefault(m, b, o + k)
         IN IF m1.exc THEN Rethrow(destroy_n(Caught(m1), b, o, k))
            ELSE UninitValueFrom(m1, b, o, n, k + 1)

uninitialized_value_construct_n(m, b, o, n) == UninitValueFrom(m, b, o, n, 0)

\* std::copy_n: copy assignment of n objects, front to back
RECURSIVE copy_n(_, _, _, _, _, _)
copy_n(m, sb, so, n, db, do) ==
    IF m.exc \/ n <= 0 THEN m
    ELSE copy_n(AssignCopy(m, db, do, sb, so), sb, so + 1, n - 1, db, do + 1)

\* std::move(first, last, d_first) inside block b: move assignment, front to back
RECURSIVE move_range(_, _, _, _, _)
move_range(m, b, first, lst, dfirst) ==
    IF m.exc \/ first >= lst THEN m
    ELSE move_range(AssignMove(m, b, dfirst, b, first), b, first + 1, lst, dfirst + 1)

\* a shift that walks front to back, overwriting the elements it has yet to move
move_backward_forward(m, b, first, lst, dlast) == move_range(m, b, first, lst, dlast - (lst - first))

\* std::move_backward(first, last, d_last) inside block b: back to front
RECURSIVE move_backward(_, _, _, _, _)
move_backward(m, b, first, lst, dlast) ==
    IF m.exc \/ first >= lst THEN m
    ELSE move_backward(AssignMove(m, b, dlast - 1, b, lst - 1), b, first, lst - 1, dlast - 1)

\* ---- RawMemory ----
FreeBlocks(m) == {b \in Blocks : m.heap[b] = <<>>}
\* the block operator new hands out next: the lowest free identity
FreshBlock(m) == IF FreeBlocks(m) = {} THEN 0
                 ELSE CHOOSE b \in FreeBlocks(m) : \A c \in FreeBlocks(m) : b <= c

\* RawMemory::Allocate(n), the block being b = FreshBlock(m); n = 0 gives nullptr
Allocate(m, b, n) ==
    IF m.exc \/ n = 0 \/ b = 0 THEN m
    ELSE [m EXCEPT !.heap[b] = [i \in 1..n |-> Uninit], !.ev.alc = @ \cup {b}]

AllocResult(m, n) == IF n = 0 THEN 0 ELSE FreshBlock(m)

\* RawMemory::Deallocate(buf): operator delete, no destructor is run
Deallocate(m, b) ==
    IF b = 0 THEN m
    ELSE IF m.heap[b] = <<>> THEN Fault(m, "double_free")
    ELSE LET m1 == IF \E i \in 1..Len(m.heap[b]) : Live(m.heap[b][i])
                   THEN Fault(m, "release_live") ELSE m
         IN [m1 EXCEPT !.heap[b] = <<>>, !.ev.rel = @ \cup {b}]

\* a RawMemory object that is not constructed, and RawMemory() = default
Raws == {1, 2}
NoRaw == [alive |-> FALSE, buf |-> 0, cap |-> 0]
NullRaw == [alive |-> TRUE, buf |-> 0, cap |-> 0]

\* ---- Vector ----
NoVector == [alive |-> FALSE, buf |-> 0, cap |-> 0, size |-> 0]
EmptyVector == [alive |-> TRUE, buf |-> 0, cap |-> 0, size |-> 0]
SetVec(m, v, r) == IF m.exc THEN m ELSE [m EXCEPT !.vec[v] = r]
Return(m, b, i) == IF m.exc THEN m ELSE [m EXCEPT !.ret = <<b, i>>]

\* Vector::Swap: size_, then data_.Swap (buffer_ and capacity_)
Swap(m, v, w) ==
    IF m.exc THEN m
    ELSE [m EXCEPT !.vec[v] = [m.vec[w] EXCEPT !.alive = m.vec[v].alive],
                   !.vec[w] = [m.vec[v] EXCEPT !.alive = m.vec[w].alive]]

\* Vector::~Vector, then ~RawMemory of data_
Destructor(m, v) ==
    LET d == m.vec[v]
        m1 == destroy_n(Caught(m), d.buf, 0, d.size)
    IN [Deallocate(m1, d.buf) EXCEPT !.vec[v] = NoVector, !.exc = m.exc]

\* the transfer of n elements into fresh storage: copies when T's move
\* constructor may throw (T is copy constructible), moves otherwise
Transfer(m, sb, so, n, db, do) ==
    IF nothrowMove THEN uninitialized_move_n(m, sb, so, n, db, do)
    ELSE uninitialized_copy_n(m, sb, so, n, db, do)

\* explicit Vector(size_t size)
SizedCtor(m, v, n) ==
    LET nb == AllocResult(m, n)
        m1 == Allocate(m, nb, n)
        m2 == uninitialized_value_construct_n(m1, nb, 0, n)
    IN IF m2.exc THEN Deallocate(m2, nb)
       ELSE SetVec(m2, v, [alive |-> TRUE, buf |-> nb, cap |-> n, size |-> n])

\* a copy constructor that copies the members (buffer pointer included)
CopyCtorShallow(m, v, w) == SetVec(m, v, [m.vec[w] EXCEPT !.alive = TRUE])

\* Vector(const Vector& other)
CopyCtor(m, v, w) ==
    LET n == m.vec[w].size
        nb == AllocResult(m, n)
        m1 == Allocate(m, nb, n)
        m2 == uninitialized_copy_n(m1, m.vec[w].buf, 0, n, nb, 0)
    IN IF m2.exc THEN Deallocate(m2, nb)
       ELSE SetVec(m2, v, [alive |-> TRUE, buf |-> nb, cap |-> n, size |-> n])

\* Vector(Vector&& other): members default-initialised, then Swap(other)
MoveCtor(m, v, w) == Swap(SetVec(m, v, EmptyVector), v, w)

\* a copy assignment that always takes the copy-and-swap path
CopyAssignAlwaysSwap(m, v, w) ==
    IF v = w THEN m
    ELSE LET m1 == CopyCtor(m, Tmp, w)
         IN IF m1.exc THEN m1 ELSE Destructor(Swap(m1, v, Tmp), Tmp)

\* Vector& operator=(const Vector& rhs)
CopyAssignOp(m, v, w) ==
    LET d == m.vec[v]
        r == m.vec[w]
    IN IF v = w THEN m
       ELSE IF r.size > d.cap
            THEN LET m1 == CopyCtor(m, Tmp, w)
                 IN IF m1.exc THEN m1 ELSE Destructor(Swap(m1, v, Tmp), Tmp)
            ELSE LET m1 == IF r.size < d.size
                           THEN destroy_n(copy_n(m, r.buf, 0, r.size, d.buf, 0),
                                          d.buf, r.size, d.size - r.size)
                           ELSE uninitialized_copy_n(copy_n(m, r.buf, 0, d.size, d.buf, 0),
                                          r.buf, d.size, r.size - d.size, d.buf, d.size)
                 IN SetVec(m1, v, [d EXCEPT !.size = r.size])

\* a move assignment that takes the source's storage and leaves it empty
MoveAssignSteal(m, v, w) ==
    IF v = w THEN m
    ELSE LET m1 == Destructor(m, v)
         IN [m1 EXCEPT !.vec[v] = m.vec[w], !.vec[w] = EmptyVector]

\* Vector& operator=(Vector&& rhs)
MoveAssignOp(m, v, w) == IF v = w THEN m ELSE Swap(m, v, w)

\* void PopBack(): std::destroy_at(data_.GetAddress() + size_--)
PopBackOp(m, v) ==
    LET d == m.vec[v]
    IN IF m.exc \/ d.size < 1 THEN m
       ELSE DestroyAt(SetVec(m, v, [d EXCEPT !.size = d.size - 1]), d.buf, d.size)

\* a Reserve that swaps the storage without destroying the originals
ReserveKeepOriginals(m, v, n) ==
    LET d == m.vec[v]
    IN IF m.exc \/ n <= d.cap THEN m
       ELSE LET nb == AllocResult(m, n)
                m1 == Allocate(m, nb, n)
                m2 == Transfer(m1, d.buf, 0, d.size, nb, 0)
                m4 == SetVec(m2, v, [d EXCEPT !.buf = nb, !.cap = n])
            IN Deallocate(m4, IF m4.exc THEN nb ELSE d.buf)

\* void Reserve(size_t new_capacity)
ReserveOp(m, v, n) ==
    LET d == m.vec[v]
    IN IF m.exc \/ n <= d.cap THEN m
       ELSE LET nb == AllocResult(m, n)
                m1 == Allocate(m, nb, n)
                m2 == Transfer(m1, d.buf, 0, d.size, nb, 0)
                m3 == destroy_n(m2, d.buf, 0, d.size)
                m4 == SetVec(m3, v, [d EXCEPT !.buf = nb, !.cap = n])
            IN Deallocate(m4, IF m4.exc THEN nb ELSE d.buf)

\* a Resize that gives the capacity back when it shrinks
ResizeShrinkToFit(m, v, n) ==
    LET d == m.vec[v]
    IN IF m.exc \/ n = d.size THEN m
       ELSE IF n < d.size
            THEN SetVec(destroy_n(m, d.buf, n, d.size - n), v, [d EXCEPT !.size = n, !.cap = n])
            ELSE LET m1 == ReserveOp(m, v, n)
                     e == m1.vec[v]
                     m2 == uninitialized_value_construct_n(m1, e.buf, e.size, n - e.size)
                 IN SetVec(m2, v, [e EXCEPT !.size = n])

\* void Resize(size_t new_size)
ResizeOp(m, v, n) ==
    LET d == m.vec[v]
    IN IF m.exc \/ n = d.size THEN m
       ELSE IF n < d.size
            THEN SetVec(destroy_n(m, d.buf, n, d.size - n), v, [d EXCEPT !.size = n])
            ELSE LET m1 == ReserveOp(m, v, n)
                     e == m1.vec[v]
                     m2 == uninitialized_value_construct_n(m1, e.buf, e.size, n - e.size)
                 IN SetVec(m2, v, [e EXCEPT !.size = n])

\* growth by one slot instead of doubling
NextCapacityPlusOne(size) == size + 1

\* RawMemory<T> new_data(size_ == 0 ? 1 : size_ * 2)
NextCapacity(size) == IF size = 0 THEN 1 ELSE size * 2

\* an EmplaceBack that transfers the old elements before it constructs the new one
EmplaceBackTransferFirst(m, v, x) ==
    LET d == m.vec[v]
    IN IF m.exc THEN m
       ELSE IF d.size # d.cap
            THEN LET m1 == CtorValue(m, d.buf, d.size, x)
                 IN Return(SetVec(m1, v, [d EXCEPT !.size = d.size + 1]), d.buf, d.size)
            ELSE LET n == NextCapacity(d.size)
                     nb == AllocResult(m, n)
                     m1 == Allocate(m, nb, n)
                     m2 == Transfer(m1, d.buf, 0, d.size, nb, 0)
                     m3 == CtorValue(m2, nb, d.size, x)
                     m4 == destroy_n(m3, d.buf, 0, d.size)
                     m5 == SetVec(m4, v, [d EXCEPT !.buf = nb, !.cap = n, !.size = d.size + 1])
                 IN Return(Deallocate(m5, IF m5.exc THEN nb ELSE d.buf), nb, d.size)

\* an EmplaceBack whose copy transfer has no handler for a throwing copy
EmplaceBackNoHandler(m, v, x) ==
    LET d == m.vec[v]
    IN IF m.exc THEN m
       ELSE IF d.size # d.cap
            THEN LET m1 == CtorValue(m, d.buf, d.size, x)
                 IN Return(SetVec(m1, v, [d EXCEPT !.size = d.size + 1]), d.buf, d.size)
            ELSE LET n == NextCapacity(d.size)
                     nb == AllocResult(m, n)
                     m1 == Allocate(m, nb, n)
                     m2 == CtorValue(m1, nb, d.size, x)
                     m3 == Transfer(m2, d.buf, 0, d.size, nb, 0)
                     m4 == destroy_n(m3, d.buf, 0, d.size)
                     m5 == SetVec(m4, v, [d EXCEPT !.buf = nb, !.cap = n, !.size = d.size + 1])
                 IN Return(Deallocate(m5, IF m5.exc THEN nb ELSE d.buf), nb, d.size)

\* T& EmplaceBack(Args&&... args), the new element getting value x
EmplaceBackOp(m, v, x) ==
    LET d == m.vec[v]
    IN IF m.exc THEN m
       ELSE IF d.size # d.cap
            THEN LET m1 == CtorValue(m, d.buf, d.size, x)
                 IN Return(SetVec(m1, v, [d EXCEPT !.size = d.size + 1]), d.buf, d.size)
            ELSE LET n == NextCapacity(d.size)
                     nb == AllocResult(m, n)
                     m1 == Allocate(m, nb, n)
                     m2 == CtorValue(m1, nb, d.size, x)
                     m3 == IF nothrowMove
                           THEN uninitialized_move_n(m2, d.buf, 0, d.size, nb, 0)
                           ELSE LET t == uninitialized_copy_n(m2, d.buf, 0, d.size, nb, 0)
                                IN IF t.exc /\ ~m2.exc
                                   THEN Rethrow(destroy_n(Caught(t), nb, d.size, 1))
                                   ELSE t
                     m4 == destroy_n(m3, d.buf, 0, d.size)
                     m5 == SetVec(m4, v, [d EXCEPT !.buf = nb, !.cap = n, !.size = d.size + 1])
                 IN Return(Deallocate(m5, IF m5.exc THEN nb ELSE d.buf), nb, d.size)

\* a PushBack that inserts before the first element instead of appending
PushBackFront(m, v, x) ==
    LET d == m.vec[v]
        m1 == ReserveOp(m, v, NextCapacity(d.size))
        e == m1.vec[v]
        m2 == IF e.size = 0 THEN CtorValue(m1, e.buf, 0, x)
              ELSE Store(move_backward(CtorMove(m1, e.buf, e.size, e.buf, e.size - 1),
                                       e.buf, 0, e.size - 1, e.size), e.buf, 0, x)
    IN Return(SetVec(m2, v, [e EXCEPT !.size = e.size + 1]), e.buf, e.size)

\* void PushBack(B&& value)
PushBackOp(m, v, x) == EmplaceBackOp(m, v, x)

\* operator delete(p) for p = block b + offset o: only the start of a block
\* (or nullptr) may be released
OperatorDelete(m, b, o) ==
    IF b = 0 /\ o = 0 THEN m
    ELSE IF o = 0 THEN Deallocate(m, b)
    ELSE Fault(m, "bad_delete")

\* the moves of the same-capacity path of Emplace, pos before end:
\* T new_s(args); new (end()) T(move(back)); move_backward; *pos = move(new_s)
EmplaceShift(m, d, index, x) ==
    LET m1 == Tick(m)
        m2 == IF m1.exc THEN m1 ELSE CtorMove(m1, d.buf, d.size, d.buf, d.size - 1)
        m3 == move_backward(m2, d.buf, index, d.size - 1, d.size)
        m4 == IF m3.exc \/ nothrowMove THEN m3 ELSE Tick(m3)
    IN IF m4.exc THEN m4 ELSE Store(m4, d.buf, index, x)

\* iterator Emplace(const_iterator pos, Args&&... args), pos = begin() + index
EmplaceOp(m, v, index, x) ==
    LET d == m.vec[v]
    IN IF m.exc THEN m
       ELSE IF d.cap > d.size
            THEN LET m1 == IF index # d.size THEN EmplaceShift(m, d, index, x)
                           ELSE CtorValue(m, d.buf, d.size, x)
                     m2 == IF m1.exc THEN Rethrow(OperatorDelete(Caught(m1), d.buf, d.size))
                           ELSE m1
                 IN Return(SetVec(m2, v, [d EXCEPT !.size = d.size + 1]), d.buf, index)
            ELSE LET n == NextCapacity(d.size)
                     nb == AllocResult(m, n)
                     m1 == Allocate(m, nb, n)
                     m2 == CtorValue(m1, nb, index, x)
                     m3 == Transfer(m2, d.buf, 0, index, nb, 0)
                     m4 == Transfer(m3, d.buf, index, d.size - index, nb, index + 1)
                     m5 == destroy_n(m4, d.buf, 0, d.size)
                     m6 == SetVec(m5, v, [d EXCEPT !.buf = nb, !.cap = n, !.size = d.size + 1])
                 IN Return(Deallocate(m6, IF m6.exc THEN nb ELSE d.buf), nb, index)

\* iterator Insert(const_iterator pos, const T& value) / (…, T&& value)
InsertOp(m, v, index, x) == EmplaceOp(m, v, index, x)

\* iterator Erase(const_iterator pos), pos = begin() + shift
EraseOp(m, v, shift) ==
    LET d == m.vec[v]
        m1 == move_range(m, d.buf, shift + 1, d.size, shift)
        m2 == PopBackOp(m1, v)
    IN Return(m2, m2.vec[v].buf, shift)

\* ---- the program: operations applied to the two vectors ----
\* faults whose behaviour the language leaves undefined
UBFaults == {"oob", "destroy_nonlive", "assign_nonlive", "read_nonlive", "double_free", "bad_delete"}
HeapUse(h) == LET RECURSIVE Sum(_)
                  Sum(S) == IF S = {} THEN 0
                            ELSE LET b == CHOOSE c \in S : TRUE IN Len(h[b]) + Sum(S \ {b})
              IN Sum(Blocks)

NoOp == [op |-> "none", v |-> 0, w |-> 0, i |-> 0, x |-> 0, ev |-> NoEv, exc |-> FALSE, ret |-> <<0, 0>>]

\* what the observer records of the operation that has just run: everything for
\* the operations in focus.full, the name and the vectors for those in
\* focus.name (and whether it threw and what it allocated), only the vector
\* operated on for those in focus.who, nothing for the others
Observe(m, op, v, w, i, x) ==
    IF op \in focus.full
    THEN [op |-> op, v |-> v, w |-> w, i |-> i, x |-> x, ev |-> m.ev, exc |-> m.exc, ret |-> m.ret]
    ELSE IF op \in focus.name
    THEN [NoOp EXCEPT !.op = op, !.v = v, !.w = w, !.exc = m.exc, !.ev.alc = m.ev.alc]
    ELSE IF op \in focus.who
    THEN [NoOp EXCEPT !.op = "op", !.v = v]
    ELSE NoOp

\* Objects left alive in the slots [size, capacity) of a vector cannot be
\* reached through it: begin()/end(), operator[] and every algorithm above read
\* only [0, size).  Between operations the model keeps their liveness and
\* forgets their value.
Forget(h, vs) ==
    [b \in Blocks |->
        IF \E v \in Vecs : vs[v].alive /\ vs[v].buf = b
        THEN LET d == vs[CHOOSE v \in Vecs : vs[v].alive /\ vs[v].buf = b]
             IN [k \in 1..Len(h[b]) |-> IF k > d.size /\ Live(h[b][k]) THEN Stale ELSE h[b][k]]
        ELSE h[b]]

\* a vector holds a pointer to a block that has been released under it: every
\* further operation that touches its storage (its destructor included) uses
\* freed memory, and the model follows the run no further
Dangling == \E u \in Vecs : vec[u].alive /\ vec[u].buf \in Blocks /\ heap[vec[u].buf] = <<>>

\* one operation has run from Start(fuel) to m: publish its result
Publish(m, op, v, w, i, x) ==
    /\ ~halted /\ ~Dangling
    /\ HeapUse(m.heap) <= focus.heap
    /\ \A u \in AllVecs : m.vec[u].cap <= focus.heap
    /\ heap' = Forget(m.heap, m.vec)
    /\ vec' = m.vec
    /\ last' = Observe(m, op, v, w, i, x)
    /\ \E crash \in (IF m.ev.flt \cap UBFaults # {} THEN BOOLEAN ELSE {FALSE}) : halted' = crash
    /\ UNCHANGED <<nothrowMove, focus, raw>>

\* an operation of a client that follows no script
Commit(m, op, v, w, i, x) == Publish(m, op, v, w, i, x) /\ UNCHANGED script

CanAlloc == FreeBlocks([heap |-> heap]) # {}
Alive(v) == vec[v].alive

Ops == {"Vector", "VectorN", "VectorCopy", "VectorMove", "~Vector", "CopyAssign", "MoveAssign",
        "Swap", "PopBack", "Erase", "Insert", "PushBack", "EmplaceBack", "Resize", "Reserve"}

Program ==
    /\ heap = [b \in Blocks |-> <<>>]
    /\ vec = [v \in AllVecs |-> IF v = 1 THEN EmptyVector ELSE NoVector]
    /\ nothrowMove \in BOOLEAN
    /\ last = NoOp
    /\ halted = FALSE
    /\ raw = [r \in Raws |-> NoRaw]

\* a client that follows a script makes the calls of the script in order, with
\* the values script.val; script.pc counts the calls made
NoScript == [pc |-> 0, val |-> <<>>]
\* what the observer records and the heap the program may use; the client is
\* free to call any operation
Watch(full, name, who, budget) ==
    /\ focus = [full |-> full, name |-> name, who |-> who, heap |-> budget]
    /\ script = NoScript
Init == Program /\ Watch({}, {}, {}, MaxShared)
DefaultConstruct(v) == ~Alive(v) /\ Commit(SetVec(Start(NoThrow), v, EmptyVector), "Vector", v, 0, 0, 0)
SizedConstruct(v, n) == ~Alive(v) /\ CanAlloc /\ Commit(SizedCtor(Start(NoThrow), v, n), "VectorN", v, 0, n, 0)
CopyConstruct(v, w) == ~Alive(v) /\ Alive(w) /\ CanAlloc /\ Commit(CopyCtor(Start(NoThrow), v, w), "VectorCopy", v, w, 0, 0)
MoveConstruct(v, w) == ~Alive(v) /\ Alive(w) /\ Commit(MoveCtor(Start(NoThrow), v, w), "VectorMove", v, w, 0, 0)
Destroy(v) == Alive(v) /\ Commit(Destructor(Start(NoThrow), v), "~Vector", v, 0, 0, 0)
CopyAssign(v, w) == Alive(v) /\ Alive(w) /\ CanAlloc /\ Commit(CopyAssignOp(Start(NoThrow), v, w), "CopyAssign", v, w, 0, 0)
MoveAssign(v, w) == Alive(v) /\ Alive(w) /\ Commit(MoveAssignOp(Start(NoThrow), v, w), "MoveAssign", v, w, 0, 0)
SwapVectors(v, w) == Alive(v) /\ Alive(w) /\ Commit(Swap(Start(NoThrow), v, w), "Swap", v, w, 0, 0)
PopBack(v) == Alive(v) /\ Commit(PopBackOp(Start(NoThrow), v), "PopBack", v, 0, 0, 0)
Erase(v, i) == Alive(v) /\ i < vec[v].size /\ Commit(EraseOp(Start(NoThrow), v, i), "Erase", v, 0, i, 0)
Insert(v, i, x) == Alive(v) /\ i <= vec[v].size /\ CanAlloc /\ Commit(InsertOp(Start(NoThrow), v, i, x), "Insert", v, 0, i, x)
PushBack(v, x) == Alive(v) /\ CanAlloc /\ Commit(PushBackOp(Start(NoThrow), v, x), "PushBack", v, 0, 0, x)
\* fuel = NoThrow: nothing throws; otherwise the element operation number fuel
\* (from 0) of this call throws, if the call makes that many
EmplaceBack(v, x, fuel) ==
    /\ Alive(v) /\ CanAlloc
    /\ fuel <= vec[v].size
    /\ LET m == EmplaceBackOp(Start(fuel), v, x)
       IN (fuel # NoThrow => m.exc) /\ Commit(m, "EmplaceBack", v, 0, fuel, x)
Resize(v, n) == Alive(v) /\ CanAlloc /\ Commit(ResizeOp(Start(NoThrow), v, n), "Resize", v, 0, n, 0)
\* Emplace with an element operation that throws; the result records fuel in w
Emplace(v, i, x, fuel) ==
    /\ Alive(v) /\ i <= vec[v].size /\ CanAlloc
    /\ LET m == EmplaceOp(Start(fuel), v, i, x)
       IN (fuel # NoThrow => m.exc) /\ Commit(m, "Emplace", v, fuel, i, x)
\* fuel as for EmplaceBack; the result records fuel in x
Reserve(v, n, fuel) ==
    /\ Alive(v) /\ CanAlloc
    /\ fuel < vec[v].size
    /\ LET m == ReserveOp(Start(fuel), v, n)
       IN (fuel # NoThrow => m.exc) /\ Commit(m, "Reserve", v, 0, n, fuel)

Next ==
    \/ \E v \in Vecs : DefaultConstruct(v)
    \/ \E v \in Vecs, n \in 0..MaxShared : SizedConstruct(v, n)
    \/ \E v \in Vecs : \E w \in Vecs \ {v} : CopyConstruct(v, w)
    \/ \E v \in Vecs : \E w \in Vecs \ {v} : MoveConstruct(v, w)
    \/ \E v \in Vecs : Destroy(v)
    \/ \E v \in Vecs : \E w \in Vecs \ {v} : CopyAssign(v, w)
    \/ \E v \in Vecs : \E w \in Vecs \ {v} : MoveAssign(v, w)
    \/ \E v \in Vecs : \E w \in Vecs \ {v} : SwapVectors(v, w)
    \/ \E v \in Vecs : PopBack(v)
    \/ \E v \in Vecs, i \in 0..MaxShared : Erase(v, i)
    \/ \E v \in Vecs, i \in 0..MaxShared, x \in Values : Insert(v, i, x)
    \/ \E v \in Vecs, x \in Values : PushBack(v, x)
    \/ \E v \in Vecs, x \in Values, fuel \in {NoThrow} \cup 0..MaxShared : EmplaceBack(v, x, fuel)
    \/ \E v \in Vecs, n \in 0..MaxShared : Resize(v, n)
    \/ \E v \in Vecs, n \in 0..MaxShared, fuel \in {NoThrow} \cup 0..MaxShared : Reserve(v, n, fuel)

\* the program that uses one vector only (assignment and Swap are to itself)
NextOne ==
    \/ DefaultConstruct(1)
    \/ \E n \in 0..MaxHeap : SizedConstruct(1, n)
    \/ Destroy(1)
    \/ CopyAssign(1, 1)
    \/ MoveAssign(1, 1)
    \/ SwapVectors(1, 1)
    \/ PopBack(1)
    \/ \E i \in 0..MaxHeap : Erase(1, i)
    \/ \E i \in 0..MaxHeap, x \in Values : Insert(1, i, x)
    \/ \E x \in Values : PushBack(1, x)
    \/ \E x \in Values, fuel \in {NoThrow} \cup 0..MaxHeap : EmplaceBack(1, x, fuel)
    \/ \E n \in 0..MaxHeap : Resize(1, n)
    \/ \E n \in 0..MaxHeap, fuel \in {NoThrow} \cup 0..MaxHeap : Reserve(1, n, fuel)

Spec == Init /\ [][Next]_vars

TypeOK ==
    /\ \A b \in Blocks : \A i \in 1..Len(heap[b]) : heap[b][i] \in Values \cup {Uninit, MovedFrom, Stale}
    /\ \A v \in AllVecs : vec[v].size <= vec[v].cap

\* ---- observations used by the properties ----
Max(a, b) == IF a >= b THEN a ELSE b
\* the element sequence of a vector d in heap h
Elems(h, d) == [k \in 1..d.size |-> IF d.buf \in Blocks /\ k <= Len(h[d.buf]) THEN h[d.buf][k] ELSE Uninit]
RemoveAt(s, i) == [k \in 1..(Len(s) - 1) |-> IF k <= i THEN s[k] ELSE s[k + 1]]
InsertAt(s, i, x) == [k \in 1..(Len(s) + 1) |-> IF k <= i THEN s[k] ELSE IF k = i + 1 THEN x ELSE s[k - 1]]
LifetimeFaults == {"construct_over_live", "destroy_nonlive", "oob", "assign_nonlive", "read_nonlive"}

\* ---- removal: PopBack and Erase ----
InitRemove == Program /\ Watch({"PopBack", "Erase"}, {}, {}, MaxHeap)
SpecRemove == InitRemove /\ [][NextOne]_vars

\* C1: in every reachable state the slots [0, size) of every vector hold live
\* elements and the slots [size, capacity) are uninitialized, and the operation
\* that led there neither constructed into a live slot nor destroyed a slot
\* that was not live.
C1_LiveBoundary ==
    /\ \A v \in Vecs : vec[v].alive =>
          \A i \in 0..(vec[v].cap - 1) :
              Live(At([heap |-> heap], vec[v].buf, i)) <=> (i < vec[v].size)
    /\ last.ev.flt \cap LifetimeFaults = {}
    /\ ~halted

\* C2: PopBack on an empty vector changes nothing; on a vector of size n >= 1
\* it destroys exactly the element of slot n-1, touches no other slot, sets
\* size to n-1 and keeps capacity and storage block.
C2_PopBack ==
    [][last'.op = "PopBack" =>
         LET d == vec[last'.v]
         IN /\ ~halted'
            /\ last'.ev.flt = {}
            /\ IF d.size = 0
               THEN heap' = heap /\ vec' = vec /\ last'.ev.des = {}
               ELSE /\ last'.ev.des = {<<d.buf, d.size - 1>>}
                    /\ heap' = [heap EXCEPT ![d.buf][d.size] = Uninit]
                    /\ At([heap |-> heap'], d.buf, d.size) = Uninit
                    /\ vec' = [vec EXCEPT ![last'.v].size = d.size - 1]]_vars

\* C3: Erase at index i of a vector of size n >= 1 yields the sequence without
\* element i, size n-1, the same capacity; the only slot destroyed is the old
\* slot n-1 and no slot at or beyond capacity is accessed.
C3_Erase ==
    [][last'.op = "Erase" =>
         LET d == vec[last'.v]
             e == vec'[last'.v]
         IN /\ ~halted'
            /\ Elems(heap', e) = RemoveAt(Elems(heap, d), last'.i)
            /\ e = [d EXCEPT !.size = d.size - 1]
            /\ last'.ev.des = {<<d.buf, d.size - 1>>}
            /\ last'.ev.flt = {}]_vars

\* ---- insertion: Insert / Emplace ----
InitInsert == Program /\ Watch({"Insert"}, {}, {}, MaxHeap)
SpecInsert == InitInsert /\ [][NextOne]_vars

\* C4: a successful Insert of x at index i of a vector of size n gives size n+1,
\* x at index i, the old elements [0, i) before it and the old elements [i, n)
\* after it in order, and returns the position of index i in the storage the
\* vector owns afterwards, whether or not the capacity was exhausted.
C4_Insert ==
    [][last'.op = "Insert" /\ ~last'.exc =>
         LET d == vec[last'.v]
             e == vec'[last'.v]
         IN /\ e.size = d.size + 1
            /\ Elems(heap', e) = InsertAt(Elems(heap, d), last'.i, last'.x)
            /\ last'.ret = <<e.buf, last'.i>>
            /\ (d.cap > d.size) => (e.buf = d.buf /\ last'.ev.alc = {})
            /\ (d.cap = d.size) => (e.buf # d.buf /\ last'.ev.alc = {e.buf})]_vars

\* an insertion before two later elements in the same-capacity path
C4_Witness ==
    /\ last.op = "Insert" /\ ~last.exc /\ last.ev.alc = {}
    /\ last.i = 1 /\ vec[last.v].size = 4
    /\ Elems(heap, vec[last.v])[1] # Elems(heap, vec[last.v])[2]
    /\ Elems(heap, vec[last.v])[3] # Elems(heap, vec[last.v])[4]

\* ---- appends: PushBack / EmplaceBack ----
InitAppend == Program /\ Watch({"PushBack"}, {}, {}, MaxHeap)
SpecAppend == InitAppend /\ [][NextOne]_vars

InitEmplaceBack == Program /\ Watch({"EmplaceBack"}, {}, {}, MaxHeap)
SpecEmplaceBack == InitEmplaceBack /\ [][NextOne]_vars

InitGrow == Program /\ Watch({}, {"PushBack", "EmplaceBack", "Insert"}, {}, MaxHeap)
SpecGrow == InitGrow /\ [][NextOne]_vars

\* C6: a successful PushBack / EmplaceBack / Insert on a vector with
\* size = capacity = c leaves capacity max(1, 2c); with size < capacity the
\* capacity is unchanged.
C6_Growth ==
    [][last'.op \in {"PushBack", "EmplaceBack", "Insert"} /\ ~last'.exc =>
         LET d == vec[last'.v]
             e == vec'[last'.v]
         IN e.cap = IF d.size = d.cap THEN Max(1, 2 * d.cap) ELSE d.cap]_vars

\* the third append of the sequence of capacities 1, 2, 4
C6_Witness ==
    /\ last.op = "PushBack" /\ ~last.exc /\ last.ev.alc # {}
    /\ vec[last.v].size = 3 /\ vec[last.v].cap = 4

\* C7: when the constructor of the new element throws in an EmplaceBack that
\* has to grow (size = capacity), size, capacity, storage block and elements
\* are as before, and the fresh block is released with no live element in it.
C7_CtorThrows ==
    [][last'.op = "EmplaceBack" /\ last'.exc /\ last'.i = 0 /\ vec[last'.v].size = vec[last'.v].cap =>
         /\ vec' = vec
         /\ heap' = heap
         /\ Cardinality(last'.ev.alc) = 1
         /\ last'.ev.rel = last'.ev.alc
         /\ last'.ev.con = {} /\ last'.ev.des = {}
         /\ last'.ev.flt = {}]_vars

C7_Witness ==
    /\ last.op = "EmplaceBack" /\ last.exc /\ last.i = 0
    /\ vec[last.v].size = vec[last.v].cap /\ vec[last.v].size >= 2
    /\ last.ev.alc # {} /\ last.ev.rel = last.ev.alc

\* C8: every successful append adds exactly one element, the appended value
\* at index old size, and, made while size < capacity, leaves every earlier
\* element with its value in its slot of the same storage block.
C8_Append ==
    [][last'.op = "PushBack" /\ ~last'.exc =>
         LET d == vec[last'.v]
             e == vec'[last'.v]
         IN /\ e.size = d.size + 1
            /\ Elems(heap', e) = Append(Elems(heap, d), last'.x)
            /\ last'.ret = <<e.buf, d.size>>
            /\ (d.size < d.cap) =>
                  /\ e.buf = d.buf /\ e.cap = d.cap
                  /\ heap' = [heap EXCEPT ![d.buf][d.size + 1] = last'.x]]_vars

C8_Witness ==
    /\ last.op = "PushBack" /\ ~last.exc /\ last.ev.alc = {}
    /\ vec[last.v].size >= 3
    /\ Elems(heap, vec[last.v])[1] # Elems(heap, vec[last.v])[2]

\* ---- two vectors: capacity, copy, move ----
Exchanges == {"Swap", "MoveAssign", "VectorMove"}
InitCapacity == Program /\ Watch({}, Exchanges, {}, MaxShared)
SpecCapacity == InitCapacity /\ [][Next]_vars

\* C5 as stated: after every operation, move assignment and Swap included, the
\* capacity of every vector is at least its capacity before and at least its size.
C5_Original ==
    [][\A v \in Vecs : vec[v].alive /\ vec'[v].alive =>
          vec'[v].cap >= vec[v].cap /\ vec'[v].cap >= vec'[v].size]_vars

\* C5 amended: after every operation the capacity of every vector is at least
\* its size; it is at least the capacity before for every operation but Swap,
\* move assignment and move construction, which exchange the capacities of
\* the two vectors.
C5_Capacity ==
    [][/\ \A v \in Vecs : vec'[v].alive =>
             /\ vec'[v].cap >= vec'[v].size
             /\ (vec[v].alive /\ last'.op \notin Exchanges) => vec'[v].cap >= vec[v].cap
       /\ last'.op \in Exchanges =>
             /\ vec'[last'.v].cap = vec[last'.w].cap
             /\ vec'[last'.w].cap = vec[last'.v].cap]_vars

\* a move assignment that has lowered the capacity of its target
C5_Witness ==
    /\ last.op = "MoveAssign"
    /\ vec[last.v].size >= 1
    /\ vec[last.v].cap < vec[last.w].cap

OnlyThis == {"Vector", "VectorN", "~Vector", "CopyAssign", "PopBack", "Erase", "Insert",
             "PushBack", "EmplaceBack", "Resize", "Reserve"}
InitCopy == Program /\ Watch({"VectorCopy"}, {}, OnlyThis, MaxShared)
SpecCopy == InitCopy /\ [][Next]_vars

\* the vector u and the contents of its storage block are as before the step
Untouched(u) ==
    /\ vec'[u] = vec[u]
    /\ vec[u].buf # 0 => heap'[vec[u].buf] = heap[vec[u].buf]

\* C9: copy construction gives a vector with a storage block of its own, the
\* size of the source, capacity equal to the source's size and the same
\* elements; afterwards an operation on one of the two vectors leaves the size,
\* the capacity and the elements of the other unchanged.
C9_Copy ==
    [][/\ last'.op = "VectorCopy" =>
             LET d == vec'[last'.v]
                 r == vec[last'.w]
             IN /\ d.alive /\ d.size = r.size /\ d.cap = r.size
                /\ Elems(heap', d) = Elems(heap, r)
                /\ (d.buf = 0) <=> (r.size = 0)
                /\ d.buf # 0 => (heap[d.buf] = <<>> /\ d.buf # r.buf /\ last'.ev.alc = {d.buf})
       /\ last'.op \in {"VectorCopy", "op"} => \A u \in Vecs \ {last'.v} : Untouched(u)
       /\ (vec'[1].alive /\ vec'[2].alive /\ vec'[1].buf # 0) => vec'[1].buf # vec'[2].buf]_vars

\* a copy of a vector whose capacity exceeds its size
C9_Witness ==
    /\ last.op = "VectorCopy"
    /\ vec[last.v].size >= 1
    /\ vec[last.w].cap > vec[last.w].size
    /\ vec[last.v].cap = vec[last.w].size

InitMove == Program /\ Watch({"VectorMove", "MoveAssign"}, {}, {}, MaxShared)
SpecMove == InitMove /\ [][Next]_vars

\* the destination v of a move from w holds what w held, nothing was
\* constructed, copied, destroyed, allocated or released
MovedInto(v, w) ==
    /\ heap' = heap
    /\ last'.ev = NoEv
    /\ vec'[v].buf = vec[w].buf /\ vec'[v].cap = vec[w].cap /\ vec'[v].size = vec[w].size
    /\ Elems(heap', vec'[v]) = Elems(heap, vec[w])

\* C10 as stated: after move construction and after move assignment into any
\* target the source has size 0 and owns no live element.
C10_Original ==
    [][last'.op \in {"VectorMove", "MoveAssign"} /\ last'.v # last'.w =>
          /\ MovedInto(last'.v, last'.w)
          /\ vec'[last'.w].size = 0
          /\ \A i \in 0..(vec'[last'.w].cap - 1) : ~Live(At([heap |-> heap'], vec'[last'.w].buf, i))]_vars

\* C10 amended: move construction leaves the source with size 0, capacity 0
\* and no storage; move assignment exchanges the two vectors, so the source
\* ends with the former size, capacity, storage and elements of the target
\* (size 0 only if the target was empty); in both the destination holds the
\* source's former elements, size, capacity and block and no element is
\* constructed, copied or destroyed.
C10_Move ==
    [][last'.op \in {"VectorMove", "MoveAssign"} /\ last'.v # last'.w =>
          /\ MovedInto(last'.v, last'.w)
          /\ IF last'.op = "VectorMove"
             THEN vec'[last'.w] = EmptyVector
             ELSE /\ vec'[last'.w] = vec[last'.v]
                  /\ Elems(heap', vec'[last'.w]) = Elems(heap, vec[last'.v])]_vars

\* a move assignment between two non-empty vectors of different sizes
C10_Witness ==
    /\ last.op = "MoveAssign" /\ last.v # last.w
    /\ vec[last.v].size >= 1 /\ vec[last.w].size >= 1
    /\ vec[last.v].size # vec[last.w].size

\* ---- round trip: Insert at i followed immediately by Erase at i ----
\* the client's two calls v.Erase(v.Insert(v.begin() + i, x)), run back to back
InsertErase(v, i, x) ==
    /\ Alive(v) /\ i <= vec[v].size /\ CanAlloc
    /\ Commit(EraseOp(InsertOp(Start(NoThrow), v, i, x), v, i), "InsertErase", v, 0, i, x)

NextRoundTrip ==
    \/ NextOne
    \/ \E i \in 0..MaxHeap, x \in Values : InsertErase(1, i, x)

InitRoundTrip == Program /\ Watch({"InsertErase"}, {}, {}, MaxHeap)
SpecRoundTrip == InitRoundTrip /\ [][NextRoundTrip]_vars

\* C11: Insert of any value at index i <= n of a vector of size n, followed
\* immediately by Erase at index i, completes and leaves the original element
\* sequence and size, with a capacity not below the original one, on either
\* path of the insertion.
C11_RoundTrip ==
    [][last'.op = "InsertErase" =>
         LET d == vec[last'.v]
             e == vec'[last'.v]
         IN /\ ~halted'
            /\ Elems(heap', e) = Elems(heap, d)
            /\ e.size = d.size
            /\ e.cap >= d.cap]_vars

\* what the two calls do return when the destruction of the slot past the last
\* element goes unnoticed: the original sequence and size
C11_Values ==
    [][last'.op = "InsertErase" =>
         LET d == vec[last'.v]
             e == vec'[last'.v]
         IN /\ Elems(heap', e) = Elems(heap, d)
            /\ e.size = d.size
            /\ e.cap >= d.cap
            /\ (d.cap > d.size) => e.buf = d.buf /\ e.cap = d.cap
            /\ (d.cap = d.size) => e.cap = NextCapacity(d.size)]_vars

\* ---- Reserve ----
InitReserve == Program /\ Watch({"Reserve"}, {}, {}, MaxHeap)
SpecReserve == InitReserve /\ [][NextOne]_vars

\* C12: a Reserve(n) that returns changes nothing when n <= capacity; when
\* n > capacity the vector owns a fresh block of capacity exactly n holding the
\* same element sequence and size, each of the size elements of the old block
\* has been destroyed once (and nothing else), and the old block is released.
C12_Reserve ==
    [][last'.op = "Reserve" /\ ~last'.exc =>
         LET d == vec[last'.v]
             e == vec'[last'.v]
             n == last'.i
         IN IF n <= d.cap
            THEN heap' = heap /\ vec' = vec /\ last'.ev = NoEv
            ELSE /\ e = [d EXCEPT !.buf = e.buf, !.cap = n]
                 /\ e.buf # d.buf /\ last'.ev.alc = {e.buf}
                 /\ Elems(heap', e) = Elems(heap, d)
                 /\ last'.ev.des = {<<d.buf, i>> : i \in 0..(d.size - 1)}
                 /\ last'.ev.flt \cap {"destroy_nonlive", "double_free", "oob"} = {}
                 /\ last'.ev.rel = {d.buf} \ {0}
                 /\ d.buf # 0 => heap'[d.buf] = <<>>]_vars

\* a Reserve beyond the capacity of a vector of two different elements
C12_Witness ==
    /\ last.op = "Reserve" /\ ~last.exc /\ ~halted
    /\ Cardinality(last.ev.des) = 2 /\ last.ev.rel # {}
    /\ vec[last.v].size = 2 /\ vec[last.v].cap = 3
    /\ Elems(heap, vec[last.v])[1] # Elems(heap, vec[last.v])[2]

\* ---- Resize ----
InitResize == Program /\ Watch({"Resize"}, {}, {}, MaxHeap)
SpecResize == InitResize /\ [][NextOne]_vars

\* the effect of a Resize(m) that returns on values, size and capacity, and
\* the slots it destroys
ResizeEffect(d, e, m, h, hh, ev) ==
    IF m = d.size
    THEN hh = h /\ e = d /\ ev = NoEv
    ELSE IF m < d.size
    THEN /\ ev.des = {<<d.buf, i>> : i \in m..(d.size - 1)}
         /\ ev.con = {} /\ ev.rel = {}
         /\ e = [d EXCEPT !.size = m]
         /\ Elems(hh, e) = SubSeq(Elems(h, d), 1, m)
    ELSE /\ e.size = m
         /\ e.cap = (IF m <= d.cap THEN d.cap ELSE m)
         /\ (m <= d.cap) => e.buf = d.buf
         /\ SubSeq(Elems(hh, e), 1, d.size) = Elems(h, d)
         /\ \A k \in (d.size + 1)..m : Elems(hh, e)[k] = Default
         /\ {<<e.buf, i>> : i \in d.size..(m - 1)} \subseteq ev.con

\* C13: Resize(m) on a vector of size n changes nothing when m = n; destroys
\* exactly the slots [m, n) and keeps elements [0, m) and the capacity when
\* m < n; when m > n keeps elements [0, n), constructs default values in the
\* slots [n, m), which held no object before, and has capacity max(old, m);
\* the size is m afterwards.
C13_Resize ==
    [][last'.op = "Resize" /\ ~last'.exc =>
         /\ ResizeEffect(vec[last'.v], vec'[last'.v], last'.i, heap, heap', last'.ev)
         /\ "construct_over_live" \notin last'.ev.flt]_vars

\* the same without the condition on the slots constructed into
C13_Values ==
    [][last'.op = "Resize" /\ ~last'.exc =>
         ResizeEffect(vec[last'.v], vec'[last'.v], last'.i, heap, heap', last'.ev)]_vars

\* ---- copy assignment ----
\* the program that builds two vectors, appends to them and removes from them,
\* and assigns one to the other or to itself
NextAssign ==
    \/ \E v \in Vecs : DefaultConstruct(v)
    \/ \E v \in Vecs, n \in 0..MaxShared : SizedConstruct(v, n)
    \/ \E v \in Vecs : Destroy(v)
    \/ \E v \in Vecs : \E w \in Vecs : CopyAssign(v, w)
    \/ \E v \in Vecs : PopBack(v)
    \/ \E v \in Vecs, x \in Values : PushBack(v, x)

InitCopyAssign == Program /\ Watch({"CopyAssign"}, {}, {}, MaxHeap)
SpecCopyAssign == InitCopyAssign /\ [][NextAssign]_vars

\* C14: after a copy assignment a = b that returns, with a and b distinct, a
\* has b's element sequence and size and b is unchanged; when b.size exceeded
\* a's capacity a owns a fresh block of capacity b.size, its old elements have
\* all been destroyed and its old block released; otherwise a keeps its block
\* and capacity, exactly the slots [b.size, old a.size) are destroyed and
\* exactly the slots [old a.size, b.size) constructed.  Self-assignment
\* changes nothing.
C14_CopyAssign ==
    [][last'.op = "CopyAssign" /\ ~last'.exc =>
         LET a == vec[last'.v]
             b == vec[last'.w]
             e == vec'[last'.v]
         IN IF last'.v = last'.w
            THEN heap' = heap /\ vec' = vec /\ last'.ev = NoEv
            ELSE /\ Elems(heap', e) = Elems(heap, b)
                 /\ e.size = b.size
                 /\ vec'[last'.w] = b
                 /\ b.buf # 0 => heap'[b.buf] = heap[b.buf]
                 /\ IF b.size > a.cap
                    THEN /\ e.cap = b.size
                         /\ e.buf \notin {0, a.buf, b.buf} /\ last'.ev.alc = {e.buf}
                         /\ last'.ev.des = {<<a.buf, i>> : i \in 0..(a.size - 1)}
                         /\ last'.ev.rel = {a.buf} \ {0}
                         /\ a.buf # 0 => heap'[a.buf] = <<>>
                    ELSE /\ e.buf = a.buf /\ e.cap = a.cap
                         /\ last'.ev.alc = {} /\ last'.ev.rel = {}
                         /\ last'.ev.des = {<<a.buf, i>> : i \in b.size..(a.size - 1)}
                         /\ last'.ev.con = {<<a.buf, i>> : i \in a.size..(b.size - 1)}]_vars

\* a copy-and-swap assignment into a vector that held an element
C14_Witness ==
    /\ last.op = "CopyAssign" /\ ~last.exc /\ ~halted
    /\ last.v # last.w
    /\ last.ev.alc # {} /\ last.ev.des # {} /\ last.ev.rel # {}
    /\ vec[last.v].size = 2
    /\ Elems(heap, vec[last.v])[1] # Elems(heap, vec[last.v])[2]

\* an in-place assignment of a longer vector
C14_WitnessInPlace ==
    /\ last.op = "CopyAssign" /\ ~last.exc /\ last.ev.alc = {} /\ last.ev.con # {}

\* ---- the scenario: three appends, Insert, Erase, PopBack, Resize, Reserve ----
\* the values appended and the value inserted: 1, 2, 3 and 99, in any arrangement
ScenarioValues == {1, 2, 3, 99}
ScenarioOps == {"PushBack", "Insert", "Erase", "PopBack", "Resize", "Reserve"}

\* call number script.pc of: v.PushBack(a); v.PushBack(b); v.PushBack(c);
\* v.Insert(v.begin() + 1, d); v.Erase(v.begin()); v.PopBack(); v.Resize(4);
\* v.Reserve(10), where <<a, b, c, d>> = script.val
Called(m, op, i, x) == Publish(m, op, 1, 0, i, x) /\ script' = [script EXCEPT !.pc = @ + 1]
ScenarioPushBack ==
    /\ script.pc \in 0..2
    /\ Called(PushBackOp(Start(NoThrow), 1, script.val[script.pc + 1]), "PushBack", 0, script.val[script.pc + 1])
ScenarioInsert == script.pc = 3 /\ Called(InsertOp(Start(NoThrow), 1, 1, script.val[4]), "Insert", 1, script.val[4])
ScenarioErase == script.pc = 4 /\ Called(EraseOp(Start(NoThrow), 1, 0), "Erase", 0, 0)
ScenarioPopBack == script.pc = 5 /\ Called(PopBackOp(Start(NoThrow), 1), "PopBack", 0, 0)
ScenarioResize == script.pc = 6 /\ Called(ResizeOp(Start(NoThrow), 1, 4), "Resize", 4, 0)
ScenarioReserve == script.pc = 7 /\ Called(ReserveOp(Start(NoThrow), 1, 10), "Reserve", 10, 0)

NextScenario ==
    \/ ScenarioPushBack
    \/ ScenarioInsert
    \/ ScenarioErase
    \/ ScenarioPopBack
    \/ ScenarioResize
    \/ ScenarioReserve

InitScenario ==
    /\ Program
    /\ focus = [full |-> ScenarioOps, name |-> {}, who |-> {}, heap |-> 10]
    /\ script \in {[pc |-> 0, val |-> val] : val \in [1..4 -> ScenarioValues]}
SpecScenario == InitScenario /\ [][NextScenario]_vars

\* sequence, size and capacity after each call of the scenario run with the
\* values <<a, b, c, d>>
ScenarioValuesOK ==
    LET d == vec[1]
        s == Elems(heap, d)
        a == script.val
        k == script.pc
    IN /\ k = 0 => s = <<>> /\ d.cap = 0
       /\ k = 1 => s = <<a[1]>> /\ d.cap = 1
       /\ k = 2 => s = <<a[1], a[2]>> /\ d.cap = 2
       /\ k = 3 => s = <<a[1], a[2], a[3]>> /\ d.cap = 4
       /\ k = 4 => s = <<a[1], a[4], a[2], a[3]>> /\ d.cap = 4
       /\ k = 5 => s = <<a[4], a[2], a[3]>> /\ d.cap = 4
       /\ k = 6 => s = <<a[4], a[2]>> /\ d.cap = 4
       /\ k = 7 => s = <<a[4], a[2], Default, Default>> /\ d.cap = 4
       /\ k = 8 => s = <<a[4], a[2], Default, Default>> /\ d.cap = 10

\* C15: in the scenario run with the values 1, 2, 3 and 99 every call returns,
\* the vector holds after each call the sequence and the capacity the
\* specification lists, and exactly the slots [0, size) of its block hold
\* live elements.
C15_Scenario ==
    script.val = <<1, 2, 3, 99>> =>
        /\ ~halted
        /\ ScenarioValuesOK
        /\ \A i \in 0..(vec[1].cap - 1) :
               Live(At([heap |-> heap], vec[1].buf, i)) <=> (i < vec[1].size)

\* values, sizes and capacities alone, for every arrangement of the values
C15_Values == script.pc > 0 => ScenarioValuesOK

\* the end of the scenario
C15_End == script.val = <<1, 2, 3, 99>> /\ script.pc = 8 /\ ~halted

\* ---- a copy that throws during the transfer into fresh storage ----
\* the program that builds one vector, appends to it, removes from it and
\* reserves storage for it, any element copy of a transfer throwing
NextTransfer ==
    \/ DefaultConstruct(1)
    \/ \E n \in 0..MaxHeap : SizedConstruct(1, n)
    \/ Destroy(1)
    \/ PopBack(1)
    \/ \E x \in Values : PushBack(1, x)
    \/ \E x \in Values, fuel \in {NoThrow} \cup 0..MaxHeap : EmplaceBack(1, x, fuel)
    \/ \E n \in 0..MaxHeap, fuel \in {NoThrow} \cup 0..MaxHeap : Reserve(1, n, fuel)

InitTransfer == Program /\ Watch({"Reserve", "EmplaceBack"}, {}, {}, MaxHeap)
SpecTransfer == InitTransfer /\ [][NextTransfer]_vars

\* the operation just observed is a Reserve or a growing EmplaceBack whose
\* copy number k (from 0) of the transfer threw
CopyThrew(l, k) ==
    /\ l.exc /\ ~nothrowMove
    /\ \/ l.op = "Reserve" /\ l.x = k
       \/ l.op = "EmplaceBack" /\ l.i = k + 1

\* C16: under the copy-transfer policy, when copy number k throws during the
\* transfer of Reserve or of a growing EmplaceBack, the k copies already made
\* in the new block (and the new element of EmplaceBack) are destroyed, nothing
\* else is, the new block is released with no live object in it, and the
\* vector's block, size, capacity and elements are as before the call.
C16_CopyThrows ==
    [][\A k \in 0..MaxHeap : CopyThrew(last', k) =>
         \E nb \in Blocks :
             /\ last'.ev.alc = {nb} /\ last'.ev.rel = {nb}
             /\ heap[nb] = <<>>
             /\ last'.ev.con = {<<nb, i>> : i \in 0..(k - 1)}
                               \cup (IF last'.op = "EmplaceBack" THEN {<<nb, vec[last'.v].size>>} ELSE {})
             /\ last'.ev.des = last'.ev.con
             /\ last'.ev.flt = {}
             /\ vec' = vec /\ heap' = heap /\ ~halted']_vars

\* the third copy of a growing EmplaceBack has thrown
C16_Witness ==
    /\ CopyThrew(last, 2) /\ last.op = "EmplaceBack"
    /\ Cardinality(last.ev.des) = 3 /\ vec[last.v].size = 3

\* the second copy of a Reserve has thrown
C16_WitnessReserve ==
    /\ CopyThrew(last, 1) /\ last.op = "Reserve" /\ Cardinality(last.ev.des) = 1

\* ---- an element operation that throws during Emplace ----
\* the program that builds one vector, appends to it, removes from it, reserves
\* storage for it and emplaces into it, any element operation of Emplace throwing
NextEmplace ==
    \/ DefaultConstruct(1)
    \/ \E n \in 0..MaxHeap : SizedConstruct(1, n)
    \/ Destroy(1)
    \/ PopBack(1)
    \/ \E x \in Values : PushBack(1, x)
    \/ \E n \in 0..MaxHeap : Reserve(1, n, NoThrow)
    \/ \E i \in 0..MaxHeap, x \in Values, fuel \in {NoThrow} \cup 0..(MaxHeap + 1) : Emplace(1, i, x, fuel)

InitEmplace == Program /\ Watch({"Emplace"}, {}, {}, MaxHeap)
SpecEmplace == InitEmplace /\ [][NextEmplace]_vars

\* the Emplace just observed threw in its element operation number k
EmplaceThrew(l, k) == l.op = "Emplace" /\ l.exc /\ l.w = k

\* C17: under the copy-transfer policy, when a copy of the prefix or of the
\* suffix throws in the capacity-exhausted path of Emplace, the vector's block,
\* size, capacity and elements are as before the call, and everything
\* constructed in the new block (the new element, the copies made) has been
\* destroyed when the new block is released.
C17_EmplaceCopyThrows ==
    [][\A k \in 1..(MaxHeap + 1) :
         EmplaceThrew(last', k) /\ ~nothrowMove /\ vec[last'.v].cap = vec[last'.v].size =>
             /\ vec' = vec /\ heap' = heap
             /\ last'.ev.rel = last'.ev.alc
             /\ last'.ev.des = last'.ev.con
             /\ "release_live" \notin last'.ev.flt]_vars

\* the vector itself is as before the call
C17_Unchanged ==
    [][\A k \in 1..(MaxHeap + 1) :
         EmplaceThrew(last', k) /\ ~nothrowMove /\ vec[last'.v].cap = vec[last'.v].size =>
             /\ vec' = vec /\ heap' = heap
             /\ last'.ev.rel = last'.ev.alc]_vars

\* C18: in the same-capacity path of Emplace with pos before end, when an
\* element operation throws after the last element has been constructed into
\* slot size, the call destroys that slot, which is uninitialized again,
\* releases no memory and leaves size, capacity and the block of the vector.
C18_ShiftThrows ==
    [][\A k \in 2..(MaxHeap + 1) :
         EmplaceThrew(last', k) /\ vec[last'.v].cap > vec[last'.v].size /\ last'.i < vec[last'.v].size =>
             LET d == vec[last'.v]
             IN /\ last'.ev.des = {<<d.buf, d.size>>}
                /\ At([heap |-> heap'], d.buf, d.size) = Uninit
                /\ last'.ev.rel = {} /\ "bad_delete" \notin last'.ev.flt
                /\ vec' = vec /\ heap'[d.buf] # <<>>
                /\ ~halted']_vars

\* C19: in the same-capacity path of Emplace, when the construction of the new
\* value throws (the temporary for pos before end, the element itself for pos
\* at end), nothing is destroyed, constructed or released, and block, size,
\* capacity and elements are as before the call.
C19_ValueThrows ==
    [][EmplaceThrew(last', 0) /\ vec[last'.v].cap > vec[last'.v].size =>
         /\ last'.ev = NoEv
         /\ vec' = vec /\ heap' = heap
         /\ ~halted']_vars

\* ---- RawMemory used on its own ----
\* an operation on RawMemory objects has run from Start(NoThrow) to m and left
\* the objects as rr
RawCommit(m, rr, op, r, o, n) ==
    /\ ~halted
    /\ HeapUse(m.heap) <= focus.heap
    /\ heap' = m.heap
    /\ raw' = rr
    /\ last' = Observe(m, op, r, o, n, 0)
    /\ \E crash \in (IF m.ev.flt \cap UBFaults # {} THEN BOOLEAN ELSE {FALSE}) : halted' = crash
    /\ UNCHANGED <<vec, nothrowMove, focus, script>>

\* RawMemory() = default
RawDefault(r) ==
    /\ ~raw[r].alive
    /\ RawCommit(Start(NoThrow), [raw EXCEPT ![r] = NullRaw], "RawMemory", r, 0, 0)

\* explicit RawMemory(size_t capacity)
RawSized(r, n) ==
    /\ ~raw[r].alive /\ CanAlloc
    /\ LET nb == AllocResult(Start(NoThrow), n)
       IN RawCommit(Allocate(Start(NoThrow), nb, n),
                    [raw EXCEPT ![r] = [alive |-> TRUE, buf |-> nb, cap |-> n]], "RawMemoryN", r, 0, n)

\* RawMemory(RawMemory&& other)
RawMoveConstruct(r, o) ==
    /\ ~raw[r].alive /\ raw[o].alive
    /\ RawCommit(Start(NoThrow),
                 [raw EXCEPT ![r] = [raw[o] EXCEPT !.alive = TRUE], ![o] = NullRaw], "RawMemoryMove", r, o, 0)

\* RawMemory& operator=(RawMemory&& rhs): buffer_ and capacity_ are overwritten
\* with the source's, the source is set to null and 0
RawMoveAssignOp(rw, r, o) ==
    IF r = o THEN [heap |-> heap, ev |-> NoEv, raw |-> rw]
    ELSE [heap |-> heap, ev |-> NoEv,
          raw |-> [rw EXCEPT ![r] = [rw[o] EXCEPT !.alive = TRUE], ![o] = NullRaw]]

RawMoveAssign(r, o) ==
    /\ raw[r].alive /\ raw[o].alive
    /\ LET res == RawMoveAssignOp(raw, r, o)
       IN RawCommit([Start(NoThrow) EXCEPT !.heap = res.heap, !.ev = res.ev], res.raw, "RawMoveAssign", r, o, 0)

\* void RawMemory::Swap(RawMemory& other)
RawSwap(r, o) ==
    /\ raw[r].alive /\ raw[o].alive
    /\ RawCommit(Start(NoThrow), [raw EXCEPT ![r] = raw[o], ![o] = raw[r]], "RawSwap", r, o, 0)

\* ~RawMemory(): Deallocate(buffer_)
RawDestroy(r) ==
    /\ raw[r].alive
    /\ RawCommit(Deallocate(Start(NoThrow), raw[r].buf), [raw EXCEPT ![r] = NoRaw], "~RawMemory", r, 0, 0)

NextRaw ==
    \/ \E r \in Raws : RawDefault(r)
    \/ \E r \in Raws, n \in 0..MaxHeap : RawSized(r, n)
    \/ \E r \in Raws : \E o \in Raws \ {r} : RawMoveConstruct(r, o)
    \/ \E r \in Raws, o \in Raws : RawMoveAssign(r, o)
    \/ \E r \in Raws, o \in Raws : RawSwap(r, o)
    \/ \E r \in Raws : RawDestroy(r)

RawOps == {"RawMemory", "RawMemoryN", "RawMemoryMove", "RawMoveAssign", "RawSwap", "~RawMemory"}
InitRaw == Program /\ Watch(RawOps, {}, {}, MaxHeap)
SpecRaw == InitRaw /\ [][NextRaw]_vars

\* the RawMemory objects that own block b
Owners(b) == {r \in Raws : raw[r].alive /\ raw[r].buf = b}

\* C20: after any sequence of RawMemory operations every allocated block is
\* owned by exactly one RawMemory and every owned block is allocated (no block
\* is dropped, as by a move assignment into an owner, and none is released
\* twice), a RawMemory's buffer is null exactly when its capacity is 0, and
\* the source of a move ends with a null buffer and capacity 0.
C20_Ownership ==
    /\ \A b \in Blocks : heap[b] # <<>> <=> Cardinality(Owners(b)) = 1
    /\ \A b \in Blocks : Cardinality(Owners(b)) <= 1
    /\ \A r \in Raws : raw[r].alive =>
          /\ raw[r].buf = 0 <=> raw[r].cap = 0
          /\ raw[r].buf # 0 => Len(heap[raw[r].buf]) = raw[r].cap
    /\ last.op \in {"RawMemoryMove", "RawMoveAssign"} /\ last.v # last.w =>
          raw[last.w] = NullRaw
    /\ "double_free" \notin last.ev.flt

\* the same with the blocks dropped by move assignment left aside: no block has
\* two owners, no owner holds a released block
C20_NoSharing ==
    /\ \A b \in Blocks : Cardinality(Owners(b)) <= 1
    /\ \A r \in Raws : raw[r].alive =>
          /\ raw[r].buf = 0 <=> raw[r].cap = 0
          /\ raw[r].buf # 0 => Len(heap[raw[r].buf]) = raw[r].cap
    /\ last.op \in {"RawMemoryMove", "RawMoveAssign"} /\ last.v # last.w =>
          raw[last.w] = NullRaw
    /\ "double_free" \notin last.ev.flt

====
